---- MODULE Spec2Model ----
(***************************************************************************)
(* The aws_spot_fleet_request resource: its Create, Read, Update and       *)
(* Delete handlers (internal/service/ec2/ec2_spot_fleet_request.go) run     *)
(* against an EC2 endpoint that answers each call from its own state.      *)
(* One handler runs at a time on the single ResourceData d; each remote    *)
(* call of a handler is one step, and the endpoint moves between steps.    *)
(***************************************************************************)
EXTENDS Integers, Sequences, FiniteSets, TLC

\* ------------------------------------------------------------- bounds
\* Fleet requests the endpoint hands out over a run.
MaxHandles == 1
\* Polls a wait makes before its timeout elapses.
MaxPolls == 3
\* Attempts of the create call that fit into the IAM propagation timeout.
MaxAttempts == 2
\* Consecutive not-found answers a state wait tolerates.
NotFoundChecks == 1
\* Not-found answers the endpoint may still give for a fleet it has created.
MaxStale == 2
\* Instances a fleet runs at most.
MaxInstances == 2
\* Attributes one plan changes at most.
MaxChanged == 2
\* launch_template_config blocks of a configuration.
MaxConfigs == 1
\* overrides blocks of one launch_template_config block.
MaxOverrides == 1
\* Launch specifications of a fleet request.
MaxLaunchSpecs == 2
\* root_block_device blocks of a launch_specification block.
MaxRootBlocks == 2
\* Block device mappings of a launch specification.
MaxMappings == 2

\* ------------------------------------------------------------- values
HandleNames == [i \in 1..(MaxHandles + 1) |-> IF i = 1 THEN "sfr-1"
                                             ELSE IF i = 2 THEN "sfr-2"
                                             ELSE IF i = 3 THEN "sfr-3"
                                             ELSE "sfr-n"]

\* A field of a request that is not set (a nil pointer); <<v>> is one set to v.
Nil == <<>>

\* The attributes of the schema the handlers read.
AttrKeys == {"target_capacity", "on_demand_target_capacity",
             "excess_capacity_termination_policy", "iam_fleet_role",
             "fleet_type", "spot_maintenance_strategies",
             "wait_for_fulfillment", "tags", "tags_all",
             "terminate_instances_with_expiration",
             "terminate_instances_on_delete"}

\* Schema defaults (and the required attributes' first value).
DefaultConfig ==
    [target_capacity |-> 1,
     on_demand_target_capacity |-> 0,
     excess_capacity_termination_policy |-> "Default",
     iam_fleet_role |-> "role-1",
     fleet_type |-> "maintain",
     spot_maintenance_strategies |-> FALSE,
     wait_for_fulfillment |-> FALSE,
     tags |-> "t1",
     tags_all |-> "t1",
     terminate_instances_with_expiration |-> FALSE,
     terminate_instances_on_delete |-> ""]

\* Attributes the schema declares ForceNew.
ForceNewKeys == {"iam_fleet_role", "fleet_type", "terminate_instances_with_expiration"}

Capacities == 1..2
OnDemandCapacities == 0..1
Policies == {"Default", "NoTermination"}

CreateConfigs ==
    { [DefaultConfig EXCEPT !.target_capacity = tc,
                            !.excess_capacity_termination_policy = p,
                            !.fleet_type = ft,
                            !.spot_maintenance_strategies = sm,
                            !.wait_for_fulfillment = w] :
        tc \in Capacities, p \in Policies, ft \in {"maintain", "request"},
        sm \in BOOLEAN, w \in BOOLEAN }

\* The plans of an update of a resource whose attributes are o: they change
\* at most MaxChanged attributes (tags and tags_all change together).
UpdateConfigs(o) ==
    LET all == { [DefaultConfig EXCEPT !.target_capacity = tc,
                            !.on_demand_target_capacity = od,
                            !.excess_capacity_termination_policy = p,
                            !.iam_fleet_role = r,
                            !.wait_for_fulfillment = w,
                            !.tags = t, !.tags_all = t] :
                   tc \in Capacities, od \in OnDemandCapacities, p \in Policies,
                   r \in {"role-1", "role-2"}, w \in BOOLEAN, t \in {"t1", "t2"} }
    IN { c \in all :
           Cardinality({k \in AttrKeys \ {"tags_all"} : o[k] # c[k]}) <= MaxChanged }

DeleteConfigs ==
    { [DefaultConfig EXCEPT !.terminate_instances_with_expiration = e,
                            !.terminate_instances_on_delete = n] :
        e \in BOOLEAN, n \in {"", "true", "false"} }

\* ------------------------------------------------------------- state
VARIABLES
    id,        \* d.Id(): "" or the fleet request id
    isNew,     \* d.IsNewResource()
    stored,    \* d's attributes that Read sets from the remote config
    old,       \* the prior attribute values of the running operation (d.GetChange)
    cfg,       \* the new attribute values of the running operation (d.Get)
    op,        \* the handler that runs
    pc,        \* its position: "done" at its return, "idle" between handlers
    diags,     \* the diag.Diagnostics it returned / has collected
    log,       \* the remote calls it has made, with their answers, and the
               \* timeouts of its waits
    polls,     \* polls of the wait that runs
    nfTick,    \* consecutive not-found answers of the wait that runs
    lastModify,\* the ModifySpotFleetRequestInput it sent, if any
    prev,      \* the handler that returned last, and whether without an error
    remote,    \* the endpoint's fleet request
    nextHandle,\* the next id the endpoint hands out
    notFound,  \* the IDs a Read of a resource that is not new was answered
               \* not-found for
    mapping,   \* the field mapper at work: its input, what it has made of it
    input,     \* the RequestSpotFleetInput the running Create has built
    sent       \* the inputs the attempts of its create call have sent

vars == <<id, isNew, stored, old, cfg, op, pc, diags, log, polls, nfTick,
          lastModify, prev, remote, nextHandle, notFound, mapping, input, sent>>

NoRemote == [id |-> "", state |-> "none", target_capacity |-> 0,
             on_demand_target_capacity |-> 0,
             excess_capacity_termination_policy |-> "",
             instances |-> 0, terminating |-> FALSE, stale |-> 0]

NoModify == [SpotFleetRequestId |-> Nil, TargetCapacity |-> Nil,
             OnDemandTargetCapacity |-> Nil,
             ExcessCapacityTerminationPolicy |-> Nil]

ReadAttrs(c) == [target_capacity |-> c.target_capacity,
                 on_demand_target_capacity |-> c.on_demand_target_capacity,
                 excess_capacity_termination_policy |->
                     c.excess_capacity_termination_policy]

\* What id.UniqueId() can return.
UniqueIds == {"terraform-1", "terraform-2"}

\* No Create is running: no request was built.
NoInput == [ClientToken |-> Nil, IamFleetRole |-> Nil, TargetCapacity |-> Nil,
            Type |-> Nil]

\* The request Create builds from the configuration, with the client token
\* that id.UniqueId() returned.
RequestSpotFleetInput(c, token) ==
    [ClientToken |-> <<token>>,
     IamFleetRole |-> <<c.iam_fleet_role>>,
     TargetCapacity |-> <<c.target_capacity>>,
     Type |-> <<c.fleet_type>>]

\* No field mapper is at work.
NoMapping == [step |-> "none"]

ResourceInit ==
    /\ id = ""
    /\ isNew = FALSE
    /\ stored = ReadAttrs(DefaultConfig)
    /\ old = DefaultConfig
    /\ cfg = DefaultConfig
    /\ op = "none"
    /\ pc = "idle"
    /\ diags = {}
    /\ log = <<>>
    /\ polls = 0
    /\ nfTick = 0
    /\ lastModify = NoModify
    /\ prev = [op |-> "none", ok |-> TRUE]
    /\ remote = NoRemote
    /\ nextHandle = 1
    /\ notFound = {}
    /\ input = NoInput
    /\ sent = <<>>

Init ==
    /\ ResourceInit
    /\ mapping = NoMapping

\* ------------------------------------------------------------- helpers
\* sdkdiag.AppendErrorf: one more diagnostic of severity Error. Its message is
\* the format with the ID h ("" when the format has no place for one) and the
\* error put in.
AppendErrorf(ds, summary, h, cause) ==
    ds \cup {[severity |-> "Error", summary |-> summary, handle |-> h,
              cause |-> cause]}

HasError(ds) == \E x \in ds : x.severity = "Error"
HasWarning(ds) == \E x \in ds : x.severity = "Warning"

Call(name, resp, n) == [call |-> name, resp |-> resp, n |-> n]

Count(name) == Cardinality({i \in 1..Len(log) : log[i].call = name})
CountResp(name, resp) ==
    Cardinality({i \in 1..Len(log) : log[i].call = name /\ log[i].resp = resp})

\* By the time the next handler runs the endpoint shows everywhere what it has.
Settled(r) == [r EXCEPT !.stale = 0]

\* The fleet request h is one the endpoint still knows.
Live(h) == /\ h # ""
           /\ remote.id = h
           /\ remote.state \in {"submitted", "active", "modifying"}

\* What begins every handler: a fresh operation on d.
Begin(name, newOld, newCfg, new) ==
    /\ op' = name
    /\ isNew' = new
    /\ old' = newOld
    /\ cfg' = newCfg
    /\ log' = <<>>
    /\ polls' = 0
    /\ nfTick' = 0
    /\ lastModify' = NoModify
    /\ input' \in (IF name = "create"
                      THEN {RequestSpotFleetInput(newCfg, t) : t \in UniqueIds}
                      ELSE {NoInput})
    /\ sent' = <<>>
    /\ UNCHANGED <<prev, mapping, notFound>>

\* The handler has returned its diagnostics: d's plan and the calls made are
\* the caller's no more; what stays is d's state and how the handler ended.
Return ==
    /\ pc = "done"
    /\ pc' = "idle"
    /\ prev' = [op |-> op, ok |-> ~HasError(diags)]
    /\ op' = "none"
    /\ isNew' = FALSE
    /\ old' = DefaultConfig
    /\ cfg' = DefaultConfig
    /\ diags' = {}
    /\ log' = <<>>
    /\ polls' = 0
    /\ nfTick' = 0
    /\ lastModify' = NoModify
    /\ input' = NoInput
    /\ sent' = <<>>
    /\ UNCHANGED <<id, stored, remote, nextHandle, notFound, mapping>>

\* ------------------------------------------------------------- endpoint
\* The answers the endpoint can give to DescribeSpotFleetRequests for h: the
\* state of a fleet request it knows, not-found for one it does not know or
\* does not show yet, or a failure of the call.
DescribeAnswers(h) ==
    (IF Live(h)
       THEN {remote.state} \cup (IF remote.stale > 0 THEN {"notfound"} ELSE {})
       ELSE {"notfound"})
    \cup {"error"}

\* The activity status the endpoint reports for h (the fulfillment wait reads it).
ActivityAnswers(h) ==
    (IF Live(h)
       THEN {"pending_fulfillment", "fulfilled", "error_activity"}
            \cup (IF remote.stale > 0 THEN {"notfound"} ELSE {})
       ELSE {"notfound"})
    \cup {"error"}

\* A not-found answer for a fleet request the endpoint knows uses up one of
\* the answers it may give before the request is visible everywhere.
RemoteAfterDescribe(h, ans) ==
    IF Live(h) /\ ans = "notfound"
      THEN [remote EXCEPT !.stale = remote.stale - 1]
      ELSE remote

\* The endpoint finishes the submission or the modification of the request.
RemoteActivate ==
    /\ remote.state \in {"submitted", "modifying"}
    /\ remote' = [remote EXCEPT !.state = "active"]
    /\ UNCHANGED <<id, isNew, stored, old, cfg, op, pc, diags, log, polls,
                   nfTick, lastModify, prev, input, sent, mapping, notFound, nextHandle>>

\* One instance of a cancelled fleet that is terminating its instances ends.
InstanceTerminated ==
    /\ remote.state = "cancelled"
    /\ remote.terminating
    /\ remote.instances > 0
    /\ remote' = [remote EXCEPT !.instances = remote.instances - 1]
    /\ UNCHANGED <<id, isNew, stored, old, cfg, op, pc, diags, log, polls,
                   nfTick, lastModify, prev, input, sent, mapping, notFound, nextHandle>>

\* ------------------------------------------------------------- waits
\* One poll of a state wait: the target state ends it, a pending state and a
\* tolerated not-found continue it, anything else fails it.
WaitOutcome(ans, Pending, Target, tick) ==
    IF ans = "error" THEN "error"
    ELSE IF ans = "notfound"
      THEN IF tick + 1 > NotFoundChecks THEN "notfound" ELSE "continue"
    ELSE IF ans \in Target THEN "done"
    ELSE IF ans \in Pending THEN "continue"
    ELSE "unexpected_state"

WaitPoll(here, callName, answers, Pending, Target, nextPc, summary) ==
    /\ pc = here
    /\ polls < MaxPolls
    /\ \E ans \in answers :
         LET out == WaitOutcome(ans, Pending, Target, nfTick) IN
         /\ log' = Append(log, Call(callName, ans, 0))
         /\ remote' = RemoteAfterDescribe(id, ans)
         /\ polls' = IF out = "continue" THEN polls + 1 ELSE 0
         /\ nfTick' = IF out = "continue" /\ ans = "notfound" THEN nfTick + 1 ELSE 0
         /\ pc' = IF out = "done" THEN nextPc
                  ELSE IF out = "continue" THEN pc ELSE "done"
         /\ diags' = IF out \in {"done", "continue"} THEN diags
                     ELSE AppendErrorf(diags, summary, id, out)
    /\ UNCHANGED <<id, isNew, stored, old, cfg, op, lastModify, prev, input, sent, mapping, notFound, nextHandle>>

\* The wait's timeout elapses before the target state was seen.
WaitTimeout(here, summary) ==
    /\ pc = here
    /\ polls = MaxPolls
    /\ pc' = "done"
    /\ polls' = 0
    /\ nfTick' = 0
    /\ diags' = AppendErrorf(diags, summary, id, "timeout")
    /\ log' = Append(log, Call("timeout", here, 0))
    /\ UNCHANGED <<id, isNew, stored, old, cfg, op, lastModify, prev, input, sent, mapping, notFound,
                   remote, nextHandle>>

\* ------------------------------------------------------------- Read
\* resourceSpotFleetRequestRead, also the last step of Create and Update.
\* Read that removes a resource from the state whether it is new or not.
ReadOutcomeAlwaysRemoves(new, ans, lsErr) ==
    IF ans = "notfound" THEN "removed"
    ELSE IF ans = "error" THEN "error"
    ELSE IF lsErr THEN "launch_specification_error"
    ELSE "set"

\* Read that takes every not-found answer for an error.
ReadOutcomeNeverRemoves(new, ans, lsErr) ==
    IF ans \in {"notfound", "error"} THEN "error"
    ELSE IF lsErr THEN "launch_specification_error"
    ELSE "set"

\* What Read makes of the answer to its describe call.
ReadOutcome(new, ans, lsErr) ==
    IF ~new /\ ans = "notfound" THEN "removed"
    ELSE IF ans \in {"notfound", "error"} THEN "error"
    ELSE IF lsErr THEN "launch_specification_error"
    ELSE "set"

ReadStep ==
    /\ pc = "read"
    /\ \E ans \in DescribeAnswers(id), lsErr \in BOOLEAN :
         /\ lsErr => ans \notin {"notfound", "error"}
         /\ log' = Append(log, Call("read", ans, 0))
         /\ remote' = RemoteAfterDescribe(id, ans)
         /\ notFound' = IF ans = "notfound" /\ ~isNew
                           THEN notFound \cup {id} ELSE notFound
         /\ pc' = "done"
         /\ IF ReadOutcome(isNew, ans, lsErr) = "removed"
              THEN /\ id' = ""
                   /\ UNCHANGED <<diags, stored>>
            ELSE IF ReadOutcome(isNew, ans, lsErr) = "error"
              THEN /\ diags' = AppendErrorf(diags, "reading EC2 Spot Fleet Request", id, ans)
                   /\ UNCHANGED <<id, stored>>
            ELSE IF ReadOutcome(isNew, ans, lsErr) = "launch_specification_error"
              THEN /\ stored' = [stored EXCEPT
                          !.excess_capacity_termination_policy =
                              remote.excess_capacity_termination_policy,
                          !.target_capacity = remote.target_capacity]
                   /\ diags' = AppendErrorf(diags,
                          "reading EC2 Spot Fleet Request launch specifications", id, "error")
                   /\ UNCHANGED id
            ELSE /\ stored' = ReadAttrs(remote)
                 /\ UNCHANGED <<id, diags>>
    /\ UNCHANGED <<isNew, old, cfg, op, polls, nfTick, lastModify, prev, input, sent, mapping,
                   nextHandle>>

ReadBegin ==
    /\ pc = "idle"
    /\ id # ""
    /\ Begin("read", DefaultConfig, DefaultConfig, FALSE)
    /\ pc' = "read"
    /\ diags' = {}
    /\ remote' = Settled(remote)
    /\ UNCHANGED <<id, stored, nextHandle>>

\* ------------------------------------------------------------- Create
\* resourceSpotFleetRequestCreate up to the create call: the request is built
\* from the configuration.
CreateBegin ==
    /\ pc = "idle"
    /\ id = ""
    /\ nextHandle <= MaxHandles
    /\ \E c \in CreateConfigs, lsErr \in BOOLEAN :
         /\ Begin("create", DefaultConfig, c, TRUE)
         /\ stored' = ReadAttrs(c)
         /\ IF lsErr
              THEN /\ diags' = AppendErrorf({}, "creating EC2 Spot Fleet Request", "", "error")
                   /\ pc' = "done"
            ELSE IF c.fleet_type # "maintain" /\ c.spot_maintenance_strategies
              THEN /\ diags' = {}
                   /\ pc' = "done"
            ELSE /\ diags' = {}
                 /\ pc' = "request"
    /\ UNCHANGED <<id, remote, nextHandle>>

\* strings.Contains.
Contains(str, substr) ==
    \E i \in 1..(Len(str) - Len(substr) + 1) :
        SubSeq(str, i, i + Len(substr) - 1) = substr

\* The errors RequestSpotFleet can answer with, by the name the log has for
\* them: the error's code and message.
RequestErrors ==
    [e \in {"InvalidSpotFleetRequestConfig:IamFleetRole",
            "InvalidSpotFleetRequestConfig:LaunchSpecifications",
            "UnauthorizedOperation:IamFleetRole",
            "error"} |->
        IF e = "InvalidSpotFleetRequestConfig:IamFleetRole"
          THEN [code |-> "InvalidSpotFleetRequestConfig",
                message |-> "Parameter: SpotFleetRequestConfig.IamFleetRole is invalid."]
        ELSE IF e = "InvalidSpotFleetRequestConfig:LaunchSpecifications"
          THEN [code |-> "InvalidSpotFleetRequestConfig",
                message |-> "Parameter: SpotFleetRequestConfig.LaunchSpecifications is invalid."]
        ELSE IF e = "UnauthorizedOperation:IamFleetRole"
          THEN [code |-> "UnauthorizedOperation",
                message |-> "Not authorized for SpotFleetRequestConfig.IamFleetRole"]
        ELSE [code |-> "InternalError", message |-> "An internal error has occurred"]]

errCodeInvalidSpotFleetRequestConfig == "InvalidSpotFleetRequestConfig"

\* A message to retry on that every message contains.
RetryMessageAny == ""

\* The message Create has the create call retried on.
RetryMessage == "SpotFleetRequestConfig.IamFleetRole"

\* tfawserr.ErrMessageContains.
ErrMessageContains(err, code, message) ==
    err.code = code /\ Contains(err.message, message)

\* What tfresource.RetryWhenAWSErrMessageContains does with the answer of one
\* attempt, the attempts made so far included.
RetryWhenAWSErrMessageContains(resp, attempts) ==
    IF resp = "ok" THEN "return"
    ELSE IF /\ ErrMessageContains(RequestErrors[resp],
                                  errCodeInvalidSpotFleetRequestConfig, RetryMessage)
            /\ attempts < MaxAttempts
      THEN "retry"
    ELSE "fail"

\* A retried function that builds its request anew, with a new client token,
\* for every attempt after the first.
AttemptInputNewToken(in, n) ==
    IF n = 1 THEN in ELSE [in EXCEPT !.ClientToken = <<"terraform-retry">>]

\* The request the n-th attempt sends: the retried function sends the input
\* that was built before the first attempt.
AttemptInput(in, n) == in

\* One attempt of RequestSpotFleet, and on its success d.SetId. Create goes by
\* the error of the retried call when checkErr holds.
CreateRequestStep(checkErr) ==
    /\ pc = "request"
    /\ \E resp \in {"ok"} \cup DOMAIN RequestErrors :
         LET todo == RetryWhenAWSErrMessageContains(resp, Count("request") + 1) IN
         /\ log' = Append(log, Call("request", resp, 0))
         /\ IF todo = "return"
              THEN /\ remote' = [id |-> HandleNames[nextHandle],
                                 state |-> "submitted",
                                 target_capacity |-> cfg.target_capacity,
                                 on_demand_target_capacity |->
                                     cfg.on_demand_target_capacity,
                                 excess_capacity_termination_policy |->
                                     cfg.excess_capacity_termination_policy,
                                 instances |-> 0,
                                 terminating |-> FALSE,
                                 stale |-> MaxStale]
                   /\ nextHandle' = nextHandle + 1
                   /\ id' = HandleNames[nextHandle]
                   /\ pc' = "wait_created"
                   /\ UNCHANGED diags
            ELSE IF todo = "retry"
              THEN UNCHANGED <<remote, nextHandle, id, pc, diags>>
            ELSE IF checkErr
              THEN /\ diags' = AppendErrorf(diags, "creating EC2 Spot Fleet Request", "", resp)
                   /\ pc' = "done"
                   /\ UNCHANGED <<remote, nextHandle, id>>
            ELSE /\ pc' = "wait_created"
                 /\ UNCHANGED <<remote, nextHandle, id, diags>>
    /\ sent' = Append(sent, AttemptInput(input, Len(sent) + 1))
    /\ UNCHANGED <<isNew, stored, old, cfg, op, polls, nfTick, lastModify, prev,
                   input, mapping, notFound>>

\* Create that goes on after a failed create call.
CreateRequestUnchecked == CreateRequestStep(FALSE)

CreateRequest == CreateRequestStep(TRUE)

\* Create that reads on when the wait for the created state timed out.
CreateWaitCreatedLenient ==
    \/ WaitPoll("wait_created", "poll_created", DescribeAnswers(id),
                {"submitted"}, {"active"},
                IF cfg.wait_for_fulfillment THEN "wait_fulfilled" ELSE "read",
                "waiting for EC2 Spot Fleet Request create")
    \/ /\ pc = "wait_created"
       /\ polls = MaxPolls
       /\ pc' = "read"
       /\ polls' = 0
       /\ nfTick' = 0
       /\ log' = Append(log, Call("timeout", "wait_created", 0))
       /\ UNCHANGED <<id, isNew, stored, old, cfg, op, diags, lastModify, prev, input, sent, mapping, notFound,
                      remote, nextHandle>>

\* WaitSpotFleetRequestCreated.
CreateWaitCreated ==
    \/ WaitPoll("wait_created", "poll_created", DescribeAnswers(id),
                {"submitted"}, {"active"},
                IF cfg.wait_for_fulfillment THEN "wait_fulfilled" ELSE "read",
                "waiting for EC2 Spot Fleet Request create")
    \/ WaitTimeout("wait_created", "waiting for EC2 Spot Fleet Request create")

\* Create that does not wait for the fulfillment it was asked to wait for.
CreateWaitFulfilledSkipped ==
    /\ pc = "wait_fulfilled"
    /\ pc' = "read"
    /\ UNCHANGED <<id, isNew, stored, old, cfg, op, diags, log, polls, nfTick,
                   lastModify, prev, input, sent, mapping, notFound, remote, nextHandle>>

\* WaitSpotFleetRequestFulfilled, when wait_for_fulfillment is set.
CreateWaitFulfilled ==
    \/ WaitPoll("wait_fulfilled", "poll_fulfilled", ActivityAnswers(id),
                {"pending_fulfillment"}, {"fulfilled"}, "read",
                "waiting for EC2 Spot Fleet Request fulfillment")
    \/ WaitTimeout("wait_fulfilled", "waiting for EC2 Spot Fleet Request fulfillment")

\* ------------------------------------------------------------- Update
\* d.HasChange and d.HasChangesExcept on the operation's prior and new values.
Changed(o, c, k) == o[k] # c[k]
HasChange(k) == Changed(old, cfg, k)
HasChangesExcept(keys) == \E k \in AttrKeys \ keys : HasChange(k)

\* d.GetOk on a string attribute: set and not the zero value.
GetOk(v) == v # ""

\* A modify request that carries the target capacity whether it changed or not.
ModifyInputAlwaysCapacity ==
    [SpotFleetRequestId |-> <<id>>,
     TargetCapacity |-> <<cfg.target_capacity>>,
     OnDemandTargetCapacity |->
         IF HasChange("on_demand_target_capacity")
           THEN <<cfg.on_demand_target_capacity>> ELSE Nil,
     ExcessCapacityTerminationPolicy |->
         IF /\ HasChange("excess_capacity_termination_policy")
            /\ GetOk(cfg.excess_capacity_termination_policy)
           THEN <<cfg.excess_capacity_termination_policy>> ELSE Nil]

\* The ModifySpotFleetRequestInput Update builds.
ModifyInput ==
    [SpotFleetRequestId |-> <<id>>,
     TargetCapacity |->
         IF HasChange("target_capacity") THEN <<cfg.target_capacity>> ELSE Nil,
     OnDemandTargetCapacity |->
         IF HasChange("on_demand_target_capacity")
           THEN <<cfg.on_demand_target_capacity>> ELSE Nil,
     ExcessCapacityTerminationPolicy |->
         IF /\ HasChange("excess_capacity_termination_policy")
            /\ GetOk(cfg.excess_capacity_termination_policy)
           THEN <<cfg.excess_capacity_termination_policy>> ELSE Nil]

\* Update that takes a change of the tags for a change to send.
UpdateFirstStepAnyChange(o, c) ==
    IF \E k \in AttrKeys : Changed(o, c, k) THEN "modify" ELSE "read"

\* Update that sends no modify call when a ForceNew attribute changed.
UpdateFirstStepSkipsForceNew(o, c) ==
    IF /\ \E k \in AttrKeys \ {"tags", "tags_all"} : Changed(o, c, k)
       /\ ~\E k \in ForceNewKeys : Changed(o, c, k)
      THEN "modify" ELSE "read"

\* Where Update starts: with the modify call when an attribute other than the
\* tags changed, with Read otherwise.
UpdateFirstStep(o, c) ==
    IF \E k \in AttrKeys \ {"tags", "tags_all"} : Changed(o, c, k)
      THEN "modify" ELSE "read"

\* resourceSpotFleetRequestUpdate up to its first remote call. The prior
\* values are those d holds; the new ones come with the plan.
UpdateBegin ==
    /\ pc = "idle"
    /\ id # ""
    /\ LET o == [DefaultConfig EXCEPT
                     !.target_capacity = stored.target_capacity,
                     !.on_demand_target_capacity = stored.on_demand_target_capacity,
                     !.excess_capacity_termination_policy =
                         stored.excess_capacity_termination_policy]
       IN \E c \in UpdateConfigs(o) :
            /\ Begin("update", o, c, FALSE)
            /\ pc' = UpdateFirstStep(o, c)
    /\ diags' = {}
    /\ remote' = Settled(remote)
    /\ UNCHANGED <<id, stored, nextHandle>>

\* The fields of a modify request the endpoint applies.
Applied(field, before) == IF field = Nil THEN before ELSE field[1]

\* ModifySpotFleetRequest.
UpdateModify ==
    /\ pc = "modify"
    /\ \E resp \in (IF Live(id) THEN {"ok", "error"} ELSE {"error"}) :
         /\ log' = Append(log, Call("modify", resp, 0))
         /\ lastModify' = ModifyInput
         /\ IF resp = "ok"
              THEN /\ remote' = [remote EXCEPT
                          !.state = "modifying",
                          !.target_capacity =
                              Applied(ModifyInput.TargetCapacity, @),
                          !.on_demand_target_capacity =
                              Applied(ModifyInput.OnDemandTargetCapacity, @),
                          !.excess_capacity_termination_policy =
                              Applied(ModifyInput.ExcessCapacityTerminationPolicy, @)]
                   /\ pc' = "wait_updated"
                   /\ UNCHANGED diags
            ELSE /\ diags' = AppendErrorf(diags, "updating EC2 Spot Fleet Request", id, resp)
                 /\ pc' = "done"
                 /\ UNCHANGED remote
    /\ UNCHANGED <<id, isNew, stored, old, cfg, op, polls, nfTick, prev, input, sent, mapping, notFound, nextHandle>>

\* Update that drops the ID when the wait for the update timed out.
UpdateWaitUpdatedForgetsID ==
    \/ WaitPoll("wait_updated", "poll_updated", DescribeAnswers(id),
                {"modifying"}, {"active"}, "read",
                "waiting for EC2 Spot Fleet Request update")
    \/ /\ pc = "wait_updated"
       /\ polls = MaxPolls
       /\ pc' = "done"
       /\ polls' = 0
       /\ nfTick' = 0
       /\ id' = ""
       /\ diags' = AppendErrorf(diags, "waiting for EC2 Spot Fleet Request update",
                                id, "timeout")
       /\ log' = Append(log, Call("timeout", "wait_updated", 0))
       /\ UNCHANGED <<isNew, stored, old, cfg, op, lastModify, prev, input, sent, mapping, notFound,
                      remote, nextHandle>>

\* Update that goes on to Read when the wait for the update timed out.
UpdateWaitUpdatedReadsOn ==
    \/ WaitPoll("wait_updated", "poll_updated", DescribeAnswers(id),
                {"modifying"}, {"active"}, "read",
                "waiting for EC2 Spot Fleet Request update")
    \/ /\ pc = "wait_updated"
       /\ polls = MaxPolls
       /\ pc' = "read"
       /\ polls' = 0
       /\ nfTick' = 0
       /\ diags' = AppendErrorf(diags, "waiting for EC2 Spot Fleet Request update",
                                id, "timeout")
       /\ log' = Append(log, Call("timeout", "wait_updated", 0))
       /\ UNCHANGED <<id, isNew, stored, old, cfg, op, lastModify, prev, input, sent, mapping,
                      notFound, remote, nextHandle>>

\* WaitSpotFleetRequestUpdated.
UpdateWaitUpdated ==
    \/ WaitPoll("wait_updated", "poll_updated", DescribeAnswers(id),
                {"modifying"}, {"active"}, "read",
                "waiting for EC2 Spot Fleet Request update")
    \/ WaitTimeout("wait_updated", "waiting for EC2 Spot Fleet Request update")

\* ------------------------------------------------------------- Delete
DoesNotExist == "fleetRequestIdDoesNotExist"

\* nullable.Bool(s).ValueBool(): the value, and whether the string is null.
NullableValueBool(s) == [v |-> s = "true", null |-> s = ""]

\* A flag that goes by terminate_instances_with_expiration alone.
TerminateInstancesExpirationOnly(c) == c.terminate_instances_with_expiration

\* The terminate-instances flag Delete works with.
TerminateInstances(c) ==
    LET n == NullableValueBool(c.terminate_instances_on_delete)
    IN IF ~n.null THEN n.v ELSE c.terminate_instances_with_expiration

\* The answers the endpoint can give to CancelSpotFleetRequests for h: the
\* call's error ("" for none) and the unsuccessful items of its output.
CancelAnswers(h) ==
    IF Live(h)
      THEN {[err |-> "", unsuccessful |-> <<>>],
            [err |-> "", unsuccessful |-> <<[id |-> h, code |-> "unexpectedError"]>>],
            [err |-> "RequestError", unsuccessful |-> <<>>]}
      ELSE {[err |-> "", unsuccessful |-> <<[id |-> h, code |-> DoesNotExist]>>],
            [err |-> DoesNotExist, unsuccessful |-> <<>>]}

CancelAnswerName(ans) ==
    IF ans.err # "" THEN "err:" \o ans.err
    ELSE IF ans.unsuccessful # <<>> THEN "item:" \o ans.unsuccessful[1].code
    ELSE "ok"

\* Delete that goes by the error of the cancel call alone.
CancelErrorOfCallOnly(ans) == ans.err

\* CancelSpotFleetRequestsError: the error the unsuccessful items make.
CancelSpotFleetRequestsError(items) ==
    IF items = <<>> THEN "" ELSE items[1].code

\* The error Delete goes by after the cancel call.
CancelError(ans) ==
    IF ans.err = "" THEN CancelSpotFleetRequestsError(ans.unsuccessful) ELSE ans.err

\* Delete that takes a fleet request that does not exist for a failure.
CancelOutcomeStrict(err, terminateInstances) ==
    IF err # "" THEN "error"
    ELSE IF ~terminateInstances THEN "cancelled"
    ELSE "wait"

\* Delete that takes every error of the cancel call for a fleet request that
\* is gone.
CancelOutcomeLenient(err, terminateInstances) ==
    IF err # "" THEN "gone"
    ELSE IF ~terminateInstances THEN "cancelled"
    ELSE "wait"

\* What Delete does after the cancel call, given the error it goes by.
CancelOutcome(err, terminateInstances) ==
    IF err = DoesNotExist THEN "gone"
    ELSE IF err # "" THEN "error"
    ELSE IF ~terminateInstances THEN "cancelled"
    ELSE "wait"

DeleteBegin ==
    /\ pc = "idle"
    /\ id # ""
    /\ \E c \in DeleteConfigs : Begin("delete", DefaultConfig, c, FALSE)
    /\ pc' = "cancel"
    /\ diags' = {}
    /\ remote' = Settled(remote)
    /\ UNCHANGED <<id, stored, nextHandle>>

\* CancelSpotFleetRequests and what Delete makes of its answer.
DeleteCancel ==
    /\ pc = "cancel"
    /\ \E ans \in CancelAnswers(id), running \in 0..MaxInstances :
         LET terminateInstances == TerminateInstances(cfg)
             err == CancelError(ans)
         IN /\ log' = Append(log, Call("cancel", CancelAnswerName(ans),
                                       IF terminateInstances THEN 1 ELSE 0))
            /\ remote' = IF ans.err = "" /\ ans.unsuccessful = <<>>
                           THEN [remote EXCEPT !.state = "cancelled",
                                               !.instances = running,
                                               !.terminating = terminateInstances]
                           ELSE remote
            /\ (ans.err # "" \/ ans.unsuccessful # <<>>) => running = 0
            /\ pc' = IF CancelOutcome(err, terminateInstances) = "wait"
                       THEN "wait_instances" ELSE "done"
            /\ diags' = IF CancelOutcome(err, terminateInstances) = "error"
                          THEN AppendErrorf(diags,
                                 "cancelling EC2 Spot Fleet Request", id, err)
                          ELSE diags
    /\ UNCHANGED <<id, isNew, stored, old, cfg, op, polls, nfTick, lastModify,
                   prev, input, sent, mapping, notFound, nextHandle>>

\* A retried function that takes one instance left for none.
FindSpotFleetInstancesResultOffByOne(failed, n) ==
    IF failed THEN "error"
    ELSE IF n <= 1 THEN "NotFound"
    ELSE ""

\* A retried function that returns an empty list of instances like any other.
FindSpotFleetInstancesResultEmptyIsFound(failed, n) ==
    IF failed THEN "error" ELSE ""

\* The function Delete retries: the fleet's instances, an empty result as a
\* not-found error.
FindSpotFleetInstancesResult(failed, n) ==
    IF failed THEN "error"
    ELSE IF n = 0 THEN "NotFound"
    ELSE ""

\* tfresource.RetryUntilNotFound on one result of the retried function.
RetryUntilNotFound(err) ==
    IF err = "NotFound" THEN "return"
    ELSE IF err # "" THEN "fail"
    ELSE "retry"

DeletePoll ==
    /\ pc = "wait_instances"
    /\ polls < MaxPolls
    /\ \E failed \in BOOLEAN :
         LET n == IF failed THEN 0 ELSE remote.instances
             todo == RetryUntilNotFound(FindSpotFleetInstancesResult(failed, n))
         IN /\ log' = Append(log, Call("poll_instances",
                                       IF failed THEN "error" ELSE "ok", n))
            /\ polls' = IF todo = "retry" THEN polls + 1 ELSE 0
            /\ pc' = IF todo = "retry" THEN pc ELSE "done"
            /\ diags' = IF todo = "fail"
                          THEN AppendErrorf(diags,
                                 "waiting for EC2 Spot Fleet Request active instance count to reach 0",
                                 id, "error")
                          ELSE diags
    /\ UNCHANGED <<id, isNew, stored, old, cfg, op, nfTick, lastModify, prev, input, sent, mapping, notFound,
                   remote, nextHandle>>

\* A wait for the instances that has no deadline.
DeleteWaitInstancesNoDeadline == DeletePoll

DeleteWaitInstances ==
    \/ DeletePoll
    \/ WaitTimeout("wait_instances",
                   "waiting for EC2 Spot Fleet Request active instance count to reach 0")

\* ------------------------------------------------------------- field mapper
\* The handlers' variables, which the field mapper leaves alone.
resource == <<id, isNew, stored, old, cfg, op, pc, diags, log, polls, nfTick,
              lastModify, prev, remote, nextHandle, notFound, input, sent>>

\* The members of a sequence or of a set kept as a function.
Range(f) == {f[x] : x \in DOMAIN f}

\* The lists of at most n different members of S.
ListsUpTo(S, n) ==
    UNION { {q \in [1..m -> S] : \A i, j \in 1..m : q[i] = q[j] => i = j} :
            m \in 0..n }

\* What reading the key k of the map m gives: its value, or the zero value.
Get(m, k, zero) == IF k \in DOMAIN m THEN m[k] ELSE zero

\* A launch_template_specification block as the SDK hands it over: every key
\* is there, an attribute the configuration does not set has the zero value.
SpecMaps ==
    { [id |-> i, name |-> n, version |-> v] :
        i \in {"", "lt-1"}, n \in {"", "tmpl"}, v \in {"", "1"} }

\* An overrides block with nothing set, and one with every attribute set
\* (priority and weighted_capacity are float64, whole numbers here).
ZeroOverride ==
    [availability_zone |-> "", instance_requirements |-> <<>>,
     instance_type |-> "", priority |-> 0, spot_price |-> "",
     subnet_id |-> "", weighted_capacity |-> 0]
FullOverride ==
    [availability_zone |-> "x", instance_requirements |-> <<>>,
     instance_type |-> "t3.micro", priority |-> 1, spot_price |-> "0.05",
     subnet_id |-> "subnet-1", weighted_capacity |-> 2]
OverrideKeys == {"availability_zone", "instance_type", "priority", "spot_price",
                 "subnet_id", "weighted_capacity"}
\* The overrides blocks: nothing set, one attribute set, every attribute set.
OverrideMaps ==
    {ZeroOverride, FullOverride}
    \cup { [k \in DOMAIN ZeroOverride |->
               IF k = f THEN FullOverride[k] ELSE ZeroOverride[k]] :
           f \in OverrideKeys }

\* The launch_template_config blocks: launch_template_specification is a
\* required list of one, overrides the list of a set.
ConfigMaps ==
    { [launch_template_specification |-> <<sp>>, overrides |-> ov] :
        sp \in SpecMaps, ov \in ListsUpTo(OverrideMaps, MaxOverrides) }
TemplateConfigLists == ListsUpTo(ConfigMaps, MaxConfigs)

\* `v, ok := tfMap[k].(string); ok && v != ""` and aws.String(v), and the
\* same for a float64 and 0.0.
StringPtr(v) == IF v # "" THEN <<v>> ELSE Nil
Float64Ptr(v) == IF v # 0 THEN <<v>> ELSE Nil

expandFleetLaunchTemplateSpecification(tfMap) ==
    [LaunchTemplateId |-> StringPtr(tfMap.id),
     LaunchTemplateName |-> StringPtr(tfMap.name),
     Version |-> StringPtr(tfMap.version)]

\* expandLaunchTemplateOverrides that leaves the subnet out.
expandLaunchTemplateOverridesDropsSubnet(tfMap) ==
    [AvailabilityZone |-> StringPtr(tfMap.availability_zone),
     InstanceRequirements |-> Nil,
     InstanceType |-> StringPtr(tfMap.instance_type),
     Priority |-> Float64Ptr(tfMap.priority),
     SpotPrice |-> StringPtr(tfMap.spot_price),
     SubnetId |-> Nil,
     WeightedCapacity |-> Float64Ptr(tfMap.weighted_capacity)]

\* instance_requirements is an empty list in every block here, which leaves
\* InstanceRequirements nil.
expandLaunchTemplateOverrides(tfMap) ==
    [AvailabilityZone |-> StringPtr(tfMap.availability_zone),
     InstanceRequirements |-> Nil,
     InstanceType |-> StringPtr(tfMap.instance_type),
     Priority |-> Float64Ptr(tfMap.priority),
     SpotPrice |-> StringPtr(tfMap.spot_price),
     SubnetId |-> StringPtr(tfMap.subnet_id),
     WeightedCapacity |-> Float64Ptr(tfMap.weighted_capacity)]

\* A nil slice is the empty sequence.
expandLaunchTemplateOverrideses(tfList) ==
    [i \in 1..Len(tfList) |-> expandLaunchTemplateOverrides(tfList[i])]

expandLaunchTemplateConfig(tfMap) ==
    [LaunchTemplateSpecification |->
         IF Len(tfMap.launch_template_specification) > 0
           THEN <<expandFleetLaunchTemplateSpecification(
                      tfMap.launch_template_specification[1])>>
           ELSE Nil,
     Overrides |->
         IF Len(tfMap.overrides) > 0
           THEN expandLaunchTemplateOverrideses(tfMap.overrides)
           ELSE <<>>]

expandLaunchTemplateConfigs(tfList) ==
    [i \in 1..Len(tfList) |-> expandLaunchTemplateConfig(tfList[i])]

\* The field of an API object that a key of the flattened map is set from.
SpecificationField(apiObject, k) ==
    IF k = "id" THEN apiObject.LaunchTemplateId
    ELSE IF k = "name" THEN apiObject.LaunchTemplateName
    ELSE apiObject.Version

OverridesField(apiObject, k) ==
    IF k = "availability_zone" THEN apiObject.AvailabilityZone
    ELSE IF k = "instance_type" THEN apiObject.InstanceType
    ELSE IF k = "priority" THEN apiObject.Priority
    ELSE IF k = "spot_price" THEN apiObject.SpotPrice
    ELSE IF k = "subnet_id" THEN apiObject.SubnetId
    ELSE apiObject.WeightedCapacity

\* The flattened maps have a key for each field that is not nil.
flattenFleetLaunchTemplateSpecificationForSpotFleetRequest(apiObject) ==
    [k \in {f \in {"id", "name", "version"} :
              SpecificationField(apiObject, f) # Nil}
       |-> SpecificationField(apiObject, k)[1]]

flattenLaunchTemplateOverrides(apiObject) ==
    [k \in {f \in OverrideKeys : OverridesField(apiObject, f) # Nil}
       |-> OverridesField(apiObject, k)[1]]

flattenLaunchTemplateOverrideses(apiObjects) ==
    [i \in 1..Len(apiObjects) |-> flattenLaunchTemplateOverrides(apiObjects[i])]

flattenLaunchTemplateConfig(apiObject) ==
    [k \in (IF apiObject.LaunchTemplateSpecification # Nil
              THEN {"launch_template_specification"} ELSE {})
           \cup (IF apiObject.Overrides # <<>> THEN {"overrides"} ELSE {})
       |-> IF k = "launch_template_specification"
             THEN <<flattenFleetLaunchTemplateSpecificationForSpotFleetRequest(
                        apiObject.LaunchTemplateSpecification[1])>>
             ELSE flattenLaunchTemplateOverrideses(apiObject.Overrides)]

flattenLaunchTemplateConfigs(apiObjects) ==
    [i \in 1..Len(apiObjects) |-> flattenLaunchTemplateConfig(apiObjects[i])]

\* Create expands the launch_template_config blocks of the configuration.
ExpandConfigs ==
    /\ mapping.step = "config"
    /\ mapping' = [step |-> "expanded", tfList |-> mapping.tfList,
                   apiObjects |-> expandLaunchTemplateConfigs(mapping.tfList)]
    /\ UNCHANGED resource

\* Read flattens the launch template configs the endpoint returns.
FlattenConfigs ==
    /\ mapping.step = "expanded"
    /\ mapping' = [step |-> "flattened", tfList |-> mapping.tfList,
                   apiObjects |-> mapping.apiObjects,
                   out |-> flattenLaunchTemplateConfigs(mapping.apiObjects)]
    /\ UNCHANGED resource

\* The launch specifications the endpoint returns (of their fields, those that
\* decide the hash and one that does not). WeightedCapacity is in tenths.
RemoteLaunchSpecs ==
    { [ImageId |-> <<"ami-1">>, InstanceType |-> <<"t3.micro">>,
       SpotPrice |-> sp, Placement |-> pl, SubnetId |-> sn,
       WeightedCapacity |-> wc] :
        sp \in {Nil, <<"0.05">>},
        pl \in {Nil, <<[AvailabilityZone |-> <<"x">>]>>},
        sn \in {Nil, <<"x">>},
        wc \in {Nil, <<10>>, <<20>>} }
LaunchSpecLists == ListsUpTo(RemoteLaunchSpecs, MaxLaunchSpecs)

\* aws.StringValue.
StringValue(p) == IF p = Nil THEN "" ELSE p[1]

\* The decimal digits of a small whole number.
Itoa(n) == IF n < 10
             THEN SubSeq("0123456789", n + 1, n + 1)
             ELSE SubSeq("0123456789", (n \div 10) + 1, (n \div 10) + 1)
                  \o SubSeq("0123456789", (n % 10) + 1, (n % 10) + 1)

\* strconv.FormatFloat(f, 'f', 0, 64) of f = t tenths: no digit after the
\* point, rounded to the nearest whole number, a half to the even one.
FormatFloat0(t) ==
    LET q == t \div 10
        r == t % 10
    IN Itoa(IF r < 5 THEN q
            ELSE IF r > 5 THEN q + 1
            ELSE IF q % 2 = 0 THEN q ELSE q + 1)

\* launchSpecToMap, the keys set from the fields above.
launchSpecToMap(l) ==
    LET keys == (IF l.ImageId # Nil THEN {"ami"} ELSE {})
                \cup (IF l.InstanceType # Nil THEN {"instance_type"} ELSE {})
                \cup (IF l.SpotPrice # Nil THEN {"spot_price"} ELSE {})
                \cup (IF l.Placement # Nil THEN {"availability_zone"} ELSE {})
                \cup (IF l.SubnetId # Nil THEN {"subnet_id"} ELSE {})
                \cup (IF l.WeightedCapacity # Nil THEN {"weighted_capacity"} ELSE {})
    IN [k \in keys |->
          IF k = "ami" THEN StringValue(l.ImageId)
          ELSE IF k = "instance_type" THEN StringValue(l.InstanceType)
          ELSE IF k = "spot_price" THEN StringValue(l.SpotPrice)
          ELSE IF k = "availability_zone"
            THEN StringValue(l.Placement[1].AvailabilityZone)
          ELSE IF k = "subnet_id" THEN StringValue(l.SubnetId)
          ELSE FormatFloat0(l.WeightedCapacity[1])]

\* m[k].(string) of a key that m does not have panics.
HashPanics(m) == ~({"ami", "instance_type", "spot_price"} \subseteq DOMAIN m)

\* hashLaunchSpecification: the string that is hashed stands for its hash code.
hashLaunchSpecification(m) ==
    m["ami"] \o "-"
    \o (IF Get(m, "availability_zone", "") # ""
          THEN m["availability_zone"] \o "-" ELSE "")
    \o (IF Get(m, "subnet_id", "") # "" THEN m["subnet_id"] \o "-" ELSE "")
    \o m["instance_type"] \o "-"
    \o m["spot_price"] \o "-"

\* schema.Set.Add: the set keeps one member for each hash code, the one added
\* first.
SetAdd(set, code, item) ==
    IF code \in DOMAIN set THEN set ELSE (code :> item) @@ set

RECURSIVE AddLaunchSpecs(_, _, _)
AddLaunchSpecs(specSet, launchSpecs, i) ==
    IF i > Len(launchSpecs) THEN [panic |-> FALSE, set |-> specSet]
    ELSE LET m == launchSpecToMap(launchSpecs[i]) IN
         IF HashPanics(m) THEN [panic |-> TRUE, set |-> specSet]
         ELSE AddLaunchSpecs(SetAdd(specSet, hashLaunchSpecification(m), m),
                             launchSpecs, i + 1)

\* launchSpecsToSet when FetchRootDeviceName succeeds for every member.
launchSpecsToSet(launchSpecs) == AddLaunchSpecs(<<>>, launchSpecs, 1)

\* Read builds the launch_specification set from the endpoint's list.
LaunchSpecsToSet ==
    /\ mapping.step = "remote"
    /\ mapping' = [step |-> "set", launchSpecs |-> mapping.launchSpecs,
                   out |-> launchSpecsToSet(mapping.launchSpecs)]
    /\ UNCHANGED resource

\* The weighted_capacity strings of a launch_specification block: not set,
\* whole numbers, numbers with a digit after the point, and no number.
WeightedCapacityStrings == {"", "1", "2", "10", "3.0", "0.5", "1.5", "2.5", "abc"}

\* A launch_specification block of the configuration as the SDK hands it
\* over: every key is there, an attribute that is not set has the zero value.
LaunchSpecMaps ==
    { [ami |-> "ami-1", instance_type |-> "t3.micro", spot_price |-> sp,
       availability_zone |-> az, subnet_id |-> "", weighted_capacity |-> wc] :
        sp \in {"", "0.05"}, az \in {"", "x"}, wc \in WeightedCapacityStrings }

IsDigits(str) ==
    /\ Len(str) > 0
    /\ \A i \in 1..Len(str) : Contains("0123456789", SubSeq(str, i, i))

\* The whole number a string of digits denotes.
RECURSIVE Atoi(_)
Atoi(str) ==
    IF Len(str) = 0 THEN 0
    ELSE 10 * Atoi(SubSeq(str, 1, Len(str) - 1))
         + (CHOOSE d \in 0..9 :
              SubSeq("0123456789", d + 1, d + 1) = SubSeq(str, Len(str), Len(str)))

\* strconv.ParseFloat(str, 64) on decimal numbers with at most one digit
\* after the point: the number in tenths, or an error.
ParseFloat(str) ==
    IF IsDigits(str) THEN [err |-> FALSE, v |-> 10 * Atoi(str)]
    ELSE IF /\ Len(str) >= 3
            /\ SubSeq(str, Len(str) - 1, Len(str) - 1) = "."
            /\ IsDigits(SubSeq(str, 1, Len(str) - 2))
            /\ IsDigits(SubSeq(str, Len(str), Len(str)))
      THEN [err |-> FALSE,
            v |-> 10 * Atoi(SubSeq(str, 1, Len(str) - 2))
                  + Atoi(SubSeq(str, Len(str), Len(str)))]
    ELSE [err |-> TRUE, v |-> 0]

\* buildSpotFleetLaunchSpecification, the fields above: the keys of d are
\* all there, so that the placement and the subnet are always set.
buildSpotFleetLaunchSpecification(d) ==
    IF d.weighted_capacity # "" /\ ParseFloat(d.weighted_capacity).err
      THEN [err |-> TRUE, opts |-> Nil]
    ELSE [err |-> FALSE,
          opts |-> [ImageId |-> <<d.ami>>,
                    InstanceType |-> <<d.instance_type>>,
                    SpotPrice |-> <<d.spot_price>>,
                    Placement |-> <<[AvailabilityZone |-> <<d.availability_zone>>]>>,
                    SubnetId |-> <<d.subnet_id>>,
                    WeightedCapacity |->
                        IF d.weighted_capacity # ""
                          THEN <<ParseFloat(d.weighted_capacity).v>> ELSE Nil]]

\* Create builds the launch specification of a launch_specification block.
BuildLaunchSpecification ==
    /\ mapping.step = "spec"
    /\ mapping' = [step |-> "built", d |-> mapping.d,
                   built |-> buildSpotFleetLaunchSpecification(mapping.d)]
    /\ UNCHANGED resource

\* Read maps the launch specification, which the endpoint returns as it was
\* sent, back to a block.
LaunchSpecToMap ==
    /\ mapping.step = "built"
    /\ ~mapping.built.err
    /\ mapping' = [step |-> "mapped", d |-> mapping.d, built |-> mapping.built,
                   out |-> launchSpecToMap(mapping.built.opts)]
    /\ UNCHANGED resource

\* The root_block_device blocks a configuration can give.
RootBlocks ==
    { [delete_on_termination |-> TRUE, volume_size |-> n] : n \in {8, 10} }
RootBlockLists == ListsUpTo(RootBlocks, MaxRootBlocks)
\* The ebs_block_device blocks: none or one.
EbsBlockLists ==
    {<<>>, <<[device_name |-> "/dev/sdb", delete_on_termination |-> TRUE,
              volume_size |-> 8]>>}
\* What FetchRootDeviceName can return for the AMI: the name, no name (there
\* is no such AMI), or an error.
RootDeviceNames ==
    {[err |-> FALSE, dn |-> <<"/dev/sda1">>], [err |-> FALSE, dn |-> Nil],
     [err |-> TRUE, dn |-> Nil]}

\* There can be only one root device: every block has the hash code 0.
hashRootBlockDevice(v) == 0

\* The schema.Set the SDK makes of the blocks of a set attribute: the blocks
\* added one by one under the attribute's hash.
RECURSIVE SetOfRootBlocks(_, _, _)
SetOfRootBlocks(set, blocks, i) ==
    IF i > Len(blocks) THEN set
    ELSE SetOfRootBlocks(SetAdd(set, hashRootBlockDevice(blocks[i]), blocks[i]),
                         blocks, i + 1)

\* schema.Set.List.
SetList(set) ==
    CHOOSE l \in [1..Cardinality(DOMAIN set) -> Range(set)] : Range(l) = Range(set)

\* The EbsBlockDevice made of a block: volume_size is set when it is not 0.
EbsOfBlock(bd) ==
    [DeleteOnTermination |-> <<bd.delete_on_termination>>,
     VolumeSize |-> IF bd.volume_size # 0 THEN <<bd.volume_size>> ELSE Nil]

\* readSpotFleetBlockDeviceMappingsFromConfig on the ebs_block_device and
\* root_block_device sets of a launch_specification block.
readSpotFleetBlockDeviceMappingsFromConfig(d, fetch) ==
    LET ebs == [i \in 1..Len(d.ebs_block_device) |->
                   [DeviceName |-> <<d.ebs_block_device[i].device_name>>,
                    Ebs |-> <<EbsOfBlock(d.ebs_block_device[i])>>,
                    VirtualName |-> Nil]]
        vL == SetList(d.root_block_device)
    IN IF Len(vL) > 1
         THEN [err |-> "Cannot specify more than one root_block_device.",
               blockDevices |-> Nil]
       ELSE IF Len(vL) = 0 THEN [err |-> "", blockDevices |-> ebs]
       ELSE IF fetch.err THEN [err |-> "FetchRootDeviceName", blockDevices |-> Nil]
       ELSE IF fetch.dn = Nil
         THEN [err |-> "Expected 1 AMI for ID, got none", blockDevices |-> Nil]
       ELSE [err |-> "",
             blockDevices |->
                 Append(ebs, [DeviceName |-> fetch.dn, Ebs |-> <<EbsOfBlock(vL[1])>>,
                              VirtualName |-> Nil])]

\* Create reads the block devices of a launch_specification block: the SDK
\* has made the root_block_device set of the configuration's blocks.
ReadBlockDevicesFromConfig ==
    /\ mapping.step = "blocks"
    /\ LET d == [ebs_block_device |-> mapping.ebs,
                 root_block_device |-> SetOfRootBlocks(<<>>, mapping.blocks, 1)]
       IN mapping' = [step |-> "devices", blocks |-> mapping.blocks,
                      ebs |-> mapping.ebs, fetch |-> mapping.fetch, d |-> d,
                      out |-> readSpotFleetBlockDeviceMappingsFromConfig(
                                  d, mapping.fetch)]
    /\ UNCHANGED resource

\* The block device mappings the endpoint can return for a launch
\* specification: with or without a device name, an EBS part, a virtual name.
RemoteMappings ==
    { [DeviceName |-> dn, Ebs |-> ebs, VirtualName |-> vn] :
        dn \in {Nil, <<"/dev/sda1">>, <<"/dev/sdb">>},
        ebs \in {Nil} \cup { <<[VolumeSize |-> <<n>>, SnapshotId |-> Nil]>> :
                                 n \in {8, 10} },
        vn \in {Nil, <<"ephemeral0">>} }
MappingLists == ListsUpTo(RemoteMappings, MaxMappings)

\* The block a root device's mapping is flattened to.
RootBlockOf(val) ==
    [k \in (IF val.Ebs[1].VolumeSize # Nil THEN {"volume_size"} ELSE {})
       |-> val.Ebs[1].VolumeSize[1]]

\* rootBlockDeviceToSet: the mappings with the root device's name; reading
\* the EBS part of one that has none panics.
RECURSIVE AddRootBlockDevices(_, _, _, _)
AddRootBlockDevices(set, bdm, rootDevName, i) ==
    IF i > Len(bdm) THEN [panic |-> FALSE, set |-> set]
    ELSE IF StringValue(bdm[i].DeviceName) # StringValue(rootDevName)
      THEN AddRootBlockDevices(set, bdm, rootDevName, i + 1)
    ELSE IF bdm[i].Ebs = Nil THEN [panic |-> TRUE, set |-> set]
    ELSE AddRootBlockDevices(
             SetAdd(set, hashRootBlockDevice(RootBlockOf(bdm[i])), RootBlockOf(bdm[i])),
             bdm, rootDevName, i + 1)

rootBlockDeviceToSet(bdm, rootDevName) ==
    IF rootDevName = Nil THEN [panic |-> FALSE, set |-> <<>>]
    ELSE AddRootBlockDevices(<<>>, bdm, rootDevName, 1)

\* The block an EBS mapping is flattened to.
EbsBlockOf(val) ==
    [k \in (IF val.DeviceName # Nil THEN {"device_name"} ELSE {})
           \cup (IF val.Ebs[1].SnapshotId # Nil THEN {"snapshot_id"} ELSE {})
           \cup (IF val.Ebs[1].VolumeSize # Nil THEN {"volume_size"} ELSE {})
       |-> IF k = "device_name" THEN val.DeviceName[1]
           ELSE IF k = "snapshot_id" THEN val.Ebs[1].SnapshotId[1]
           ELSE val.Ebs[1].VolumeSize[1]]

\* hashEBSBlockDevice: the string that is hashed stands for its hash code.
hashEBSBlockDevice(m) ==
    (IF "device_name" \in DOMAIN m THEN m["device_name"] \o "-" ELSE "")
    \o (IF "snapshot_id" \in DOMAIN m THEN m["snapshot_id"] \o "-" ELSE "")

\* ebsBlockDevicesToSet: the mappings with an EBS part, but for those with
\* the root device's name.
RECURSIVE AddEbsBlockDevices(_, _, _, _)
AddEbsBlockDevices(set, bdm, rootDevName, i) ==
    IF i > Len(bdm) THEN set
    ELSE IF \/ bdm[i].Ebs = Nil
            \/ /\ bdm[i].DeviceName # Nil
               /\ StringValue(rootDevName) = StringValue(bdm[i].DeviceName)
      THEN AddEbsBlockDevices(set, bdm, rootDevName, i + 1)
    ELSE AddEbsBlockDevices(
             SetAdd(set, hashEBSBlockDevice(EbsBlockOf(bdm[i])), EbsBlockOf(bdm[i])),
             bdm, rootDevName, i + 1)

ebsBlockDevicesToSet(bdm, rootDevName) == AddEbsBlockDevices(<<>>, bdm, rootDevName, 1)

\* The block a mapping with a virtual name is flattened to.
EphemeralBlockOf(val) ==
    [k \in {"virtual_name"}
           \cup (IF val.DeviceName # Nil THEN {"device_name"} ELSE {})
       |-> IF k = "device_name" THEN val.DeviceName[1] ELSE val.VirtualName[1]]

\* hashEphemeralBlockDevice; m[device_name].(string) of a block without the
\* key panics.
hashEphemeralBlockDevice(m) == m["device_name"] \o "-" \o m["virtual_name"] \o "-"

\* ephemeralBlockDevicesToSet: the mappings with a virtual name.
RECURSIVE AddEphemeralBlockDevices(_, _, _)
AddEphemeralBlockDevices(set, bdm, i) ==
    IF i > Len(bdm) THEN [panic |-> FALSE, set |-> set]
    ELSE IF bdm[i].VirtualName = Nil
      THEN AddEphemeralBlockDevices(set, bdm, i + 1)
    ELSE IF "device_name" \notin DOMAIN EphemeralBlockOf(bdm[i])
      THEN [panic |-> TRUE, set |-> set]
    ELSE AddEphemeralBlockDevices(
             SetAdd(set, hashEphemeralBlockDevice(EphemeralBlockOf(bdm[i])),
                    EphemeralBlockOf(bdm[i])),
             bdm, i + 1)

ephemeralBlockDevicesToSet(bdm) == AddEphemeralBlockDevices(<<>>, bdm, 1)

\* Read flattens the block device mappings of a launch specification, as
\* launchSpecToMap does first of all: root, EBS and ephemeral block devices.
BlockDevicesToSets ==
    /\ mapping.step = "mappings"
    /\ LET root == rootBlockDeviceToSet(mapping.bdm, mapping.rootDevName)
           ephemeral == ephemeralBlockDevicesToSet(mapping.bdm)
       IN mapping' = [step |-> "sets", bdm |-> mapping.bdm,
                      rootDevName |-> mapping.rootDevName,
                      panic |-> root.panic \/ ephemeral.panic,
                      root_block_device |-> root.set,
                      ebs_block_device |->
                          ebsBlockDevicesToSet(mapping.bdm, mapping.rootDevName),
                      ephemeral_block_device |-> ephemeral.set]
    /\ UNCHANGED resource

\* The field mapper at work on a configuration or on a list of the endpoint.
MapperInit ==
    /\ ResourceInit
    /\ mapping \in { [step |-> "config", tfList |-> l] : l \in TemplateConfigLists }
                   \cup { [step |-> "remote", launchSpecs |-> l] :
                          l \in LaunchSpecLists }
                   \cup { [step |-> "spec", d |-> m] : m \in LaunchSpecMaps }
                   \cup { [step |-> "blocks", blocks |-> l, ebs |-> e, fetch |-> f] :
                          l \in RootBlockLists, e \in EbsBlockLists,
                          f \in RootDeviceNames }
                   \cup { [step |-> "mappings", bdm |-> l, rootDevName |-> r] :
                          l \in MappingLists, r \in {Nil, <<"/dev/sda1">>} }

MapperNext ==
    \/ ExpandConfigs
    \/ FlattenConfigs
    \/ LaunchSpecsToSet
    \/ BuildLaunchSpecification
    \/ LaunchSpecToMap
    \/ ReadBlockDevicesFromConfig
    \/ BlockDevicesToSets

MapperSpec == MapperInit /\ [][MapperNext]_vars

\* ------------------------------------------------------------- system
Next ==
    \/ CreateBegin
    \/ CreateRequest
    \/ CreateWaitCreated
    \/ CreateWaitFulfilled
    \/ ReadBegin
    \/ ReadStep
    \/ UpdateBegin
    \/ UpdateModify
    \/ UpdateWaitUpdated
    \/ DeleteBegin
    \/ DeleteCancel
    \/ DeleteWaitInstances
    \/ Return
    \/ RemoteActivate
    \/ InstanceTerminated

Spec == Init /\ [][Next]_vars

\* A handler that has been called runs on: each of its remote calls returns,
\* and the deadline of each of its waits passes.
HandlerStep ==
    \/ CreateRequest
    \/ CreateWaitCreated
    \/ CreateWaitFulfilled
    \/ ReadStep
    \/ UpdateModify
    \/ UpdateWaitUpdated
    \/ DeleteCancel
    \/ DeleteWaitInstances

LiveSpec == Init /\ [][Next]_vars /\ WF_vars(HandlerStep)

TypeOK ==
    /\ id \in {""} \cup {HandleNames[i] : i \in 1..MaxHandles}
    /\ isNew \in BOOLEAN
    /\ op \in {"none", "create", "read", "update", "delete"}
    /\ pc \in {"idle", "done", "request", "wait_created", "wait_fulfilled", "read",
               "modify", "wait_updated", "cancel", "wait_instances"}
    /\ polls \in 0..MaxPolls
    /\ nfTick \in 0..NotFoundChecks
    /\ nextHandle \in 1..(MaxHandles + 1)
    /\ remote.instances \in 0..MaxInstances
    /\ remote.stale \in 0..MaxStale

\* ------------------------------------------------------------- properties
Done(name) == pc = "done" /\ op = name
LastCall == log[Len(log)]
Answered(name, resps) ==
    \E i \in 1..Len(log) : log[i].call = name /\ log[i].resp \in resps
NotExistAnswers == {"err:" \o DoesNotExist, "item:" \o DoesNotExist}
FoundAnswers == {"submitted", "active", "modifying"}
CreateSummary == "waiting for EC2 Spot Fleet Request create"

\* C1: Delete is idempotent. A Delete that runs right after a Delete that
\* returned without an error ends with its first call, without an error
\* diagnostic and without a change at the endpoint, whatever the value of the
\* terminate-instances option.
C1_DeleteTwiceIsNoOp ==
    [][ ( /\ op = "delete"
          /\ prev.op = "delete"
          /\ prev.ok
          /\ pc \in {"cancel", "wait_instances"}
          /\ (pc' # pc \/ log' # log) )
        => ( /\ remote' = remote
             /\ pc' = "done"
             /\ Len(log') = 1
             /\ diags' = {} ) ]_vars

C1_Witness ==
    /\ Done("delete")
    /\ prev.op = "delete"
    /\ prev.ok
    /\ TerminateInstances(cfg)
    /\ remote.instances > 0
    /\ diags = {}

\* C2: When the cancel call reports that the fleet request does not exist, as
\* the call's error or as the unsuccessful item of its output, Delete returns
\* at once without an error diagnostic and polls no instance count, also when
\* terminate-instances is true.
C2_AlreadyGoneIsSuccess ==
    (op = "delete" /\ Answered("cancel", NotExistAnswers))
        => (pc = "done" /\ diags = {} /\ Count("poll_instances") = 0 /\ Len(log) = 1)

C2_Witness ==
    /\ Done("delete")
    /\ Answered("cancel", {"item:" \o DoesNotExist})
    /\ TerminateInstances(cfg)
    /\ diags = {}

\* C3: When Delete runs with terminate-instances true and the cancel call
\* succeeded, it returns without an error only right after a poll that saw
\* zero instances; when no poll saw zero instances it returns an error, and
\* when every poll up to the timeout saw instances that error is the timeout.
C3_DeleteWaitsForZeroInstances ==
    (Done("delete") /\ TerminateInstances(cfg) /\ Answered("cancel", {"ok"}))
        => /\ ~HasError(diags) =>
                /\ LastCall.call = "poll_instances"
                /\ LastCall.resp = "ok"
                /\ LastCall.n = 0
           /\ (~\E i \in 1..Len(log) : /\ log[i].call = "poll_instances"
                                       /\ log[i].resp = "ok"
                                       /\ log[i].n = 0)
                => HasError(diags)
           /\ (LastCall.call = "timeout")
                => /\ Count("poll_instances") = MaxPolls
                   /\ \A i \in 1..Len(log) :
                        log[i].call = "poll_instances" => log[i].n > 0
                   /\ \E e \in diags : e.severity = "Error" /\ e.cause = "timeout"

C3_Witness ==
    /\ Done("delete")
    /\ TerminateInstances(cfg)
    /\ Answered("cancel", {"ok"})
    /\ Count("poll_instances") >= 2
    /\ LastCall.n = 0
    /\ diags = {}

\* C4 (as claimed): every Read that is answered not-found clears the ID and
\* returns no error, the Read at the end of Create included.
C4_EveryReadClearsOnNotFound ==
    (pc = "done" /\ Len(log) > 0 /\ LastCall = Call("read", "notfound", 0))
        => (id = "" /\ ~HasError(diags))

\* C4 (amended): a Read that is answered not-found clears the ID and returns
\* no error when the resource is not new (the Read handler, the Read at the
\* end of Update); the Read at the end of Create, on the new resource, keeps
\* the ID and returns the error "reading EC2 Spot Fleet Request".
C4_ReadClearsOnNotFoundUnlessNew ==
    (pc = "done" /\ Len(log) > 0 /\ LastCall = Call("read", "notfound", 0))
        => IF isNew
             THEN /\ op = "create"
                  /\ id # ""
                  /\ diags = AppendErrorf({}, "reading EC2 Spot Fleet Request", id, "notfound")
             ELSE /\ op \in {"read", "update"}
                  /\ id = ""
                  /\ diags = {}

C4_Witness ==
    /\ Done("read")
    /\ LastCall = Call("read", "notfound", 0)
    /\ id = ""
    /\ diags = {}

\* C5: An Update whose plan changes no attribute, or the tags alone, sends no
\* ModifySpotFleetRequest and waits for no update; it makes the one describe
\* call of Read and nothing else, and when that call finds the request, d
\* holds the endpoint's values afterwards.
C5_UnchangedUpdateOnlyReads ==
    (Done("update") /\ ~HasChangesExcept({"tags", "tags_all"}))
        => /\ Count("modify") = 0
           /\ Count("poll_updated") = 0
           /\ lastModify = NoModify
           /\ Count("read") = 1
           /\ Len(log) = 1
           /\ (LastCall.resp \in FoundAnswers /\ ~HasError(diags))
                => (id # "" /\ stored = ReadAttrs(remote))

C5_Witness ==
    /\ Done("update")
    /\ ~HasChangesExcept({"tags", "tags_all"})
    /\ HasChange("tags")
    /\ diags = {}
    /\ id # ""
    /\ stored.target_capacity # old.target_capacity

\* C6: The modify request of Update carries each of target capacity,
\* on-demand target capacity and excess capacity termination policy if and
\* only if that attribute changed, and then with the new value.
C6_ModifySendsExactlyTheChanged ==
    (op = "update" /\ Count("modify") > 0)
        => /\ lastModify.SpotFleetRequestId # Nil
           /\ lastModify.TargetCapacity =
                 (IF old.target_capacity # cfg.target_capacity
                    THEN <<cfg.target_capacity>> ELSE Nil)
           /\ lastModify.OnDemandTargetCapacity =
                 (IF old.on_demand_target_capacity # cfg.on_demand_target_capacity
                    THEN <<cfg.on_demand_target_capacity>> ELSE Nil)
           /\ lastModify.ExcessCapacityTerminationPolicy =
                 (IF old.excess_capacity_termination_policy #
                        cfg.excess_capacity_termination_policy
                    THEN <<cfg.excess_capacity_termination_policy>> ELSE Nil)

C6_Witness ==
    /\ Done("update")
    /\ Count("modify") = 1
    /\ lastModify.TargetCapacity # Nil
    /\ lastModify.OnDemandTargetCapacity = Nil
    /\ lastModify.ExcessCapacityTerminationPolicy # Nil
    /\ diags = {}

ForceNewChanged == \E k \in ForceNewKeys : HasChange(k)

CreatedWaitTimedOut ==
    /\ Done("create")
    /\ \E i \in 1..Len(log) : log[i] = Call("timeout", "wait_created", 0)

\* C8 (as claimed): when the create call succeeded and the wait for the
\* created state times out, Create returns the ID with a warning and no error.
C8_CreateTimeoutIsWarning ==
    CreatedWaitTimedOut => (id # "" /\ ~HasError(diags) /\ HasWarning(diags))

\* C8 (amended): when the create call succeeded and the wait for the created
\* state times out, Create returns the error "waiting for EC2 Spot Fleet
\* Request create" and no warning; d keeps the ID the create call returned,
\* and Create makes no Read.
C8_CreateTimeoutIsErrorWithID ==
    CreatedWaitTimedOut
        => /\ id # ""
           /\ id = remote.id
           /\ LastCall = Call("timeout", "wait_created", 0)
           /\ diags = AppendErrorf({}, CreateSummary, id, "timeout")
           /\ ~HasWarning(diags)
           /\ Count("read") = 0

C8_Witness ==
    /\ CreatedWaitTimedOut
    /\ Answered("request", {"ok"})
    /\ id = "sfr-1"

NotFoundAnswers ==
    Cardinality({i \in 1..Len(log) : log[i].resp = "notfound"})

\* C9: Create, its Read included, does not end in a not-found error when the
\* endpoint answers not-found no more often than the waits tolerate, however
\* those answers fall among the others.
C9_CreateToleratesNotFoundWithinBudget ==
    (Done("create") /\ Answered("request", {"ok"}) /\ NotFoundAnswers <= NotFoundChecks)
        => ~\E e \in diags : e.cause = "notfound"

TransientAnswer == "InvalidSpotFleetRequestConfig:IamFleetRole"

\* C10: Create makes at most MaxAttempts attempts of the create call. When
\* every attempt fails with the IAM fleet role error, Create stops after the
\* last one with an error and without an ID; when an attempt succeeds, it is
\* the last one and d's ID is the one that attempt returned.
C10_CreateRetriesAreBounded ==
    op = "create"
        => /\ Count("request") <= MaxAttempts
           /\ (pc = "done" /\ Count("request") >= 1
                 /\ CountResp("request", TransientAnswer) = Count("request"))
                => /\ Count("request") = MaxAttempts
                   /\ LastCall.call = "request"
                   /\ HasError(diags)
                   /\ id = ""
           /\ Answered("request", {"ok"})
                => /\ CountResp("request", "ok") = 1
                   /\ log[Count("request")] = Call("request", "ok", 0)
                   /\ \A i \in 1..Len(log) :
                        log[i].call = "request" => i <= Count("request")
                   /\ id # ""
                   /\ id = remote.id

C10_Witness ==
    /\ Done("create")
    /\ CountResp("request", TransientAnswer) = 1
    /\ Answered("request", {"ok"})
    /\ id = "sfr-1"
    /\ diags = {}

\* C11: the resource moves along Absent -> Creating -> Stable -> (Updating ->
\* Stable)* -> Deleting -> Absent only: Create starts without an ID and every
\* other handler with one, Update and Delete make their remote calls with the
\* ID set, Create makes its calls after the create call with the ID set, and
\* Create does not return with neither an ID nor an error.
C11_LifecycleEdgesOnly ==
    /\ (op = "create" /\ pc = "request") => id = ""
    /\ (op = "create" /\ pc \in {"wait_created", "wait_fulfilled", "read"}) => id # ""
    /\ (op \in {"read", "update", "delete"} /\ pc # "done") => id # ""
    /\ pc \in {"modify", "wait_updated", "cancel", "wait_instances"} => id # ""
    /\ Done("create") => (id # "" \/ HasError(diags))

\* C13: Create swallows no error. When it returns without an error
\* diagnostic, the create call was made and succeeded and d has an ID; a
\* configuration with spot maintenance strategies for a fleet type other than
\* maintain makes it return an error.
C13_CreateSwallowsNoError ==
    /\ (Done("create") /\ ~HasError(diags))
         => (Answered("request", {"ok"}) /\ id # "")
    /\ (Done("create") /\ cfg.spot_maintenance_strategies /\ cfg.fleet_type # "maintain")
         => HasError(diags)

InstancePolls == {i \in 1..Len(log) : log[i].call = "poll_instances"}
SawNoInstance(i) == log[i] = Call("poll_instances", "ok", 0)

\* C14: a Delete that terminates instances, whose cancel call succeeded and
\* whose polls see the instance count reach 0 at the k-th poll for the first
\* time, has made the cancel call once, as its first call, then exactly those
\* k polls, the first k-1 of which saw instances, and returns without an
\* error right after the k-th.
C14_DeletePollsUntilFirstZero ==
    (op = "delete" /\ TerminateInstances(cfg) /\ \E i \in InstancePolls : SawNoInstance(i))
        => LET k == Cardinality(InstancePolls) IN
           /\ log[1] = Call("cancel", "ok", 1)
           /\ Count("cancel") = 1
           /\ Len(log) = k + 1
           /\ k <= MaxPolls
           /\ \A i \in 2..k : /\ log[i].call = "poll_instances"
                              /\ log[i].resp = "ok"
                              /\ log[i].n > 0
           /\ SawNoInstance(k + 1)
           /\ pc = "done"
           /\ diags = {}

C14_Witness ==
    /\ Done("delete")
    /\ diags = {}
    /\ log = <<Call("cancel", "ok", 1), Call("poll_instances", "ok", 2),
               Call("poll_instances", "ok", 1), Call("poll_instances", "ok", 0)>>

\* C15: when a wait of Create, Update or Delete times out, the handler
\* returns with an error diagnostic whose message names d's ID, and d's ID is
\* the one it was before: not cleared and not replaced.
C15_TimeoutKeepsAndNamesID ==
    [][ (Len(log') = Len(log) + 1 /\ log'[Len(log')].call = "timeout")
        => ( /\ op \in {"create", "update", "delete"}
             /\ op' = op
             /\ pc' = "done"
             /\ id # ""
             /\ id' = id
             /\ \E e \in diags' \ diags : /\ e.severity = "Error"
                                          /\ e.cause = "timeout"
                                          /\ e.handle = id' ) ]_vars

C15_Witness ==
    /\ Done("update")
    /\ LastCall = Call("timeout", "wait_updated", 0)
    /\ id = "sfr-1"
    /\ diags = AppendErrorf({}, "waiting for EC2 Spot Fleet Request update",
                            "sfr-1", "timeout")

\* C16: every Create, Update and Delete that was called returns: none of its
\* waits goes on forever, the deadline of a wait whose target is not seen ends
\* it (with a timeout error, C15).
C16_HandlersTerminate ==
    (op \in {"create", "update", "delete"} /\ pc # "done") ~> (pc = "done")

C16_Witness ==
    /\ Done("delete")
    /\ Count("poll_instances") = MaxPolls
    /\ LastCall = Call("timeout", "wait_instances", 0)
    /\ remote.instances > 0
    /\ HasError(diags)

\* C18: flattening the expanded launch_template_config blocks gives as many
\* blocks, each with its launch template's id, name and version and each of
\* its overrides' availability_zone, instance_type, priority, spot_price,
\* subnet_id and weighted_capacity as the configuration has them; a key the
\* flattened map has not reads as the zero value.
C18_FlattenExpandRoundTrip ==
    mapping.step = "flattened"
        => LET s == mapping.tfList
               t == mapping.out
           IN /\ Len(t) = Len(s)
              /\ \A i \in 1..Len(s) :
                   /\ "launch_template_specification" \in DOMAIN t[i]
                   /\ Len(t[i].launch_template_specification) = 1
                   /\ \A k \in {"id", "name", "version"} :
                        /\ Get(t[i].launch_template_specification[1], k, "")
                             = s[i].launch_template_specification[1][k]
                        /\ s[i].launch_template_specification[1][k] # ""
                             => k \in DOMAIN t[i].launch_template_specification[1]
                   /\ Len(Get(t[i], "overrides", <<>>)) = Len(s[i].overrides)
                   /\ \A j \in 1..Len(s[i].overrides) : \A k \in OverrideKeys :
                        /\ Get(t[i].overrides[j], k, ZeroOverride[k])
                             = s[i].overrides[j][k]
                        /\ s[i].overrides[j][k] # ZeroOverride[k]
                             => k \in DOMAIN t[i].overrides[j]

C18_Witness ==
    /\ mapping.step = "flattened"
    /\ Len(mapping.tfList) = 1
    /\ mapping.tfList[1].overrides = <<FullOverride>>
    /\ mapping.tfList[1].launch_template_specification[1].id = "lt-1"
    /\ mapping.out[1].overrides[1].subnet_id = "subnet-1"
    /\ mapping.out[1].overrides[1].priority = 1

\* The orders a list can be in.
Orders(l) ==
    { [i \in 1..Len(l) |-> l[p[i]]] :
        p \in {q \in [1..Len(l) -> 1..Len(l)] :
                 \A i, j \in 1..Len(l) : q[i] = q[j] => i = j} }

\* C19: the launch_specification set that launchSpecsToSet builds is the
\* same for every order of the endpoint's list, also when two members of the
\* list have the same hash.
C19_SetIsOrderIndependent ==
    (mapping.step = "set" /\ ~mapping.out.panic)
        => \A l \in Orders(mapping.launchSpecs) :
               launchSpecsToSet(l) = mapping.out

\* The step of Create that a call belongs to: the create call, the wait for
\* the created state, the wait for fulfillment, Read.
CreateStepOf(c) ==
    IF c.call = "request" THEN 1
    ELSE IF c.call = "poll_created" THEN 2
    ELSE IF c.call = "poll_fulfilled" THEN 3
    ELSE IF c.call = "read" THEN 4
    ELSE IF c.resp = "wait_created" THEN 2 ELSE 3
\* A call that failed its step for good.
StepFailed(c) == c.call = "timeout" \/ c.resp = "error"

\* C20: Create makes its calls in the order create call (with its retries),
\* wait for the created state, wait for fulfillment, Read. d has its ID from
\* the create call that succeeded on and no wait or Read is made without it;
\* the wait for fulfillment is made if and only if wait_for_fulfillment is
\* set, after the created state was seen; Read is made after the waits
\* reached their targets. A call that fails is the last call, Create returns
\* with one error diagnostic, and a Create that made the create call and
\* returns without an error has gone through to Read.
C20_CreateStepsInOrder ==
    op = "create"
        => /\ \A i, j \in 1..Len(log) :
                i < j => CreateStepOf(log[i]) <= CreateStepOf(log[j])
           /\ id # "" <=> Answered("request", {"ok"})
           /\ \A i \in 1..Len(log) :
                CreateStepOf(log[i]) >= 2
                    => /\ id # ""
                       /\ log[Count("request")] = Call("request", "ok", 0)
           /\ Count("poll_fulfilled") > 0
                => /\ cfg.wait_for_fulfillment
                   /\ CountResp("poll_created", "active") = 1
           /\ Count("read") > 0
                => /\ Count("read") = 1
                   /\ LastCall.call = "read"
                   /\ CountResp("poll_created", "active") = 1
                   /\ cfg.wait_for_fulfillment
                        <=> CountResp("poll_fulfilled", "fulfilled") = 1
                   /\ cfg.wait_for_fulfillment <=> Count("poll_fulfilled") > 0
           /\ \A i \in 1..Len(log) : StepFailed(log[i]) => i = Len(log)
           /\ (Len(log) > 0 /\ StepFailed(LastCall))
                => (pc = "done" /\ HasError(diags))
           /\ HasError(diags) => (pc = "done" /\ Cardinality(diags) = 1)
           /\ (pc = "done" /\ Count("request") > 0 /\ ~HasError(diags))
                => (LastCall.call = "read" /\ LastCall.resp \in FoundAnswers)

\* Create with wait_for_fulfillment that retried the create call and went
\* through every step.
C20_Witness ==
    /\ Done("create")
    /\ cfg.wait_for_fulfillment
    /\ diags = {}
    /\ id = "sfr-1"
    /\ log = <<Call("request", TransientAnswer, 0), Call("request", "ok", 0),
               Call("poll_created", "submitted", 0), Call("poll_created", "active", 0),
               Call("poll_fulfilled", "pending_fulfillment", 0),
               Call("poll_fulfilled", "fulfilled", 0), Call("read", "active", 0)>>

\* A wait of Create that failed: nothing after it, the ID kept.
C20_FailureWitness ==
    /\ Done("create")
    /\ HasError(diags)
    /\ id = "sfr-1"
    /\ LastCall = Call("poll_fulfilled", "error", 0)
    /\ Count("read") = 0

\* The step of Update that a call belongs to: the modify call, the wait for
\* the updated state, Read.
UpdateStepOf(c) ==
    IF c.call = "modify" THEN 1
    ELSE IF c.call = "read" THEN 3
    ELSE 2

\* C21: Update makes its calls in the order modify call, wait for the updated
\* state, Read: the wait follows a modify call that succeeded, and Read
\* follows either no modify call at all (nothing but tags changed) or a wait
\* that saw the updated state. When the modify call or the wait fails,
\* Update returns with an error, makes no Read, and the attributes d had
\* before the Update are the ones it has after it.
C21_UpdateStepsInOrder ==
    op = "update"
        => /\ \A i, j \in 1..Len(log) :
                i < j => UpdateStepOf(log[i]) <= UpdateStepOf(log[j])
           /\ Count("modify") <= 1
           /\ Count("modify") = 0 => UpdateFirstStep(old, cfg) = "read" \/ pc = "modify"
           /\ (Count("poll_updated") > 0 \/ Count("timeout") > 0)
                => log[1] = Call("modify", "ok", 0)
           /\ Count("read") > 0
                => /\ Count("read") = 1
                   /\ LastCall.call = "read"
                   /\ Count("modify") = 1
                        => /\ log[1] = Call("modify", "ok", 0)
                           /\ CountResp("poll_updated", "active") = 1
                           /\ log[Len(log) - 1] = Call("poll_updated", "active", 0)
           /\ \A i \in 1..Len(log) :
                (log[i].call # "read" /\ StepFailed(log[i]))
                    => /\ i = Len(log)
                       /\ pc = "done"
                       /\ HasError(diags)
           /\ (HasError(diags) /\ Count("read") = 0) => pc = "done"
           /\ Count("read") = 0 => stored = ReadAttrs(old)

\* An Update of the target capacity whose modify call fails.
C21_Witness ==
    /\ Done("update")
    /\ log = <<Call("modify", "error", 0)>>
    /\ HasChange("target_capacity")
    /\ HasError(diags)
    /\ stored = ReadAttrs(old)
    /\ stored.target_capacity # cfg.target_capacity

\* C22: every modify request that Update sends for a plan without a ForceNew
\* change (the plans the SDK hands to Update) sets at least one of
\* TargetCapacity, OnDemandTargetCapacity and ExcessCapacityTerminationPolicy:
\* none has the ID alone.
C22_ModifyCarriesAChange ==
    (op = "update" /\ Count("modify") > 0 /\ ~ForceNewChanged)
        => \/ lastModify.TargetCapacity # Nil
           \/ lastModify.OnDemandTargetCapacity # Nil
           \/ lastModify.ExcessCapacityTerminationPolicy # Nil

\* C23: the terminate-instances flag of Delete is the value of
\* terminate_instances_on_delete when that is not null and the value of
\* terminate_instances_with_expiration otherwise. The cancel call, the first
\* and only one, carries it; with the flag false Delete returns right after
\* the cancel call, without a poll and after a successful cancel without an
\* error; with the flag true a successful cancel is followed by the polls of
\* the instance count, and no poll is made otherwise.
C23_TerminateFlagDecidesPolling ==
    (op = "delete" /\ Len(log) > 0)
        => LET flag == IF cfg.terminate_instances_on_delete # ""
                         THEN cfg.terminate_instances_on_delete = "true"
                         ELSE cfg.terminate_instances_with_expiration
           IN /\ log[1].call = "cancel"
              /\ log[1].n = (IF flag THEN 1 ELSE 0)
              /\ Count("cancel") = 1
              /\ ~flag => /\ Len(log) = 1
                          /\ pc = "done"
                          /\ log[1].resp = "ok" => diags = {}
              /\ (flag /\ log[1].resp = "ok")
                   => \/ pc = "wait_instances"
                      \/ pc = "done" /\ Count("poll_instances") >= 1
              /\ Count("poll_instances") > 0 => (flag /\ log[1].resp = "ok")

\* terminate_instances_on_delete = "false" wins over
\* terminate_instances_with_expiration = true: no poll.
C23_Witness ==
    /\ Done("delete")
    /\ cfg.terminate_instances_on_delete = "false"
    /\ cfg.terminate_instances_with_expiration
    /\ log = <<Call("cancel", "ok", 0)>>
    /\ diags = {}

\* C24: Create retries the create call after the error with the code
\* InvalidSpotFleetRequestConfig and a message that has
\* "SpotFleetRequestConfig.IamFleetRole" in it, and after no other: an
\* attempt that is followed by another was answered with that error, and an
\* attempt answered with any other error (the same code with another message
\* and another code with that message among them) is the last call of
\* Create, which returns with an error and without an ID.
C24_RetryOnlyOnIamFleetRole ==
    op = "create"
        => /\ \A i \in 1..Len(log) :
                (log[i].call = "request" /\ log[i].resp \notin {"ok", TransientAnswer})
                    => /\ i = Len(log)
                       /\ pc = "done"
                       /\ HasError(diags)
                       /\ id = ""
           /\ \A i \in 1..(Len(log) - 1) :
                (log[i].call = "request" /\ log[i + 1].call = "request")
                    => log[i].resp = TransientAnswer
           /\ (Len(log) > 0 /\ log[1].resp \notin {"ok", TransientAnswer})
                => Count("request") = 1

\* The error has the code but not the message: one attempt.
C24_Witness ==
    /\ Done("create")
    /\ log = <<Call("request", "InvalidSpotFleetRequestConfig:LaunchSpecifications", 0)>>
    /\ id = ""
    /\ diags = AppendErrorf({}, "creating EC2 Spot Fleet Request", "",
                            "InvalidSpotFleetRequestConfig:LaunchSpecifications")

\* C25: every attempt of the create call of one Create sends the request
\* that Create built before the first attempt, with the client token
\* generated then. At most one attempt succeeds, it is the last one, the
\* endpoint has handed out one ID for it, and that ID is d's ID; without a
\* successful attempt d has no ID.
C25_OneRequestOneToken ==
    op = "create"
        => /\ input.ClientToken # Nil
           /\ input.ClientToken[1] \in UniqueIds
           /\ Len(sent) = Count("request")
           /\ \A i \in 1..Len(sent) : sent[i] = input
           /\ CountResp("request", "ok") <= 1
           /\ CountResp("request", "ok") = 1
                => /\ log[Count("request")] = Call("request", "ok", 0)
                   /\ id = HandleNames[nextHandle - 1]
                   /\ remote.id = id
           /\ CountResp("request", "ok") = 0 => id = ""

\* A Create whose second attempt succeeded: both sent the same token.
C25_Witness ==
    /\ Done("create")
    /\ Len(sent) = 2
    /\ sent[1].ClientToken = <<"terraform-2">>
    /\ sent[2].ClientToken = <<"terraform-2">>
    /\ log[1] = Call("request", TransientAnswer, 0)
    /\ log[2] = Call("request", "ok", 0)
    /\ id = "sfr-1"

\* C26: Delete returns without an error only when its cancel call was
\* answered without an error and without an unsuccessful item, or with the
\* code that says the fleet request does not exist (as the call's error or
\* as the item's). Any other error of the call, and an unsuccessful item with
\* any other code, make Delete return an error that names the ID and the
\* cause, right after the cancel call and without a poll of the instances.
C26_CancelFailureIsAnError ==
    (op = "delete" /\ Len(log) > 0)
        => /\ log[1].call = "cancel"
           /\ (pc = "done" /\ ~HasError(diags))
                => log[1].resp \in {"ok"} \cup NotExistAnswers
           /\ log[1].resp \notin {"ok"} \cup NotExistAnswers
                => /\ pc = "done"
                   /\ Len(log) = 1
                   /\ Count("poll_instances") = 0
                   /\ \E e \in diags :
                        /\ e.severity = "Error"
                        /\ e.summary = "cancelling EC2 Spot Fleet Request"
                        /\ e.handle = id
                        /\ e.cause \in {"unexpectedError", "RequestError"}
           /\ log[1].resp \in NotExistAnswers
                => /\ pc = "done"
                   /\ Len(log) = 1
                   /\ diags = {}

\* The cancel call lists the request as unsuccessful with another code, and
\* Delete was to wait for the instances.
C26_Witness ==
    /\ Done("delete")
    /\ TerminateInstances(cfg)
    /\ log = <<Call("cancel", "item:unexpectedError", 1)>>
    /\ diags = AppendErrorf({}, "cancelling EC2 Spot Fleet Request", id,
                            "unexpectedError")

\* C27: the launch_specification set that Read builds has as many members
\* as the endpoint's list has launch specifications that differ from one
\* another, and each of them is a member, also when two of them agree in
\* all that is hashed.
C27_NoLaunchSpecLost ==
    (mapping.step = "set" /\ ~mapping.out.panic)
        => /\ Cardinality(DOMAIN mapping.out.set)
                = Cardinality(Range(mapping.launchSpecs))
           /\ \A i \in 1..Len(mapping.launchSpecs) :
                launchSpecToMap(mapping.launchSpecs[i]) \in Range(mapping.out.set)

\* The claim's second case: one launch specification with the availability
\* zone "x" and no subnet, one with the subnet "x" and no availability zone.
C27_ZoneAndSubnetBothKept ==
    (/\ mapping.step = "set"
     /\ ~mapping.out.panic
     /\ Len(mapping.launchSpecs) = 2
     /\ mapping.launchSpecs[1].Placement # Nil
     /\ mapping.launchSpecs[1].SubnetId = Nil
     /\ mapping.launchSpecs[2].Placement = Nil
     /\ mapping.launchSpecs[2].SubnetId # Nil)
        => Cardinality(DOMAIN mapping.out.set) = 2

\* C28: for every weighted_capacity string that
\* buildSpotFleetLaunchSpecification accepts, whole or with a digit after the
\* point, launchSpecToMap of the launch specification built from the block
\* returns a weighted_capacity that denotes the same number.
C28_WeightedCapacityRoundTrip ==
    (mapping.step = "mapped" /\ mapping.d.weighted_capacity # "")
        => /\ "weighted_capacity" \in DOMAIN mapping.out
           /\ ~ParseFloat(mapping.out.weighted_capacity).err
           /\ ParseFloat(mapping.out.weighted_capacity).v
                = ParseFloat(mapping.d.weighted_capacity).v

\* C28 for whole numbers, which do come back as the number they were.
C28_WholeWeightedCapacityRoundTrip ==
    (/\ mapping.step = "mapped"
     /\ mapping.d.weighted_capacity # ""
     /\ ParseFloat(mapping.d.weighted_capacity).v % 10 = 0)
        => /\ "weighted_capacity" \in DOMAIN mapping.out
           /\ ParseFloat(mapping.out.weighted_capacity).v
                = ParseFloat(mapping.d.weighted_capacity).v

\* C29: the root_block_device set of a launch_specification block has at
\* most one member; readSpotFleetBlockDeviceMappingsFromConfig returns the
\* error "Cannot specify more than one root_block_device." when the
\* configuration gives more than one root_block_device block, and otherwise,
\* when it returns no error, at most one mapping made of a root_block_device.
C29_OneRootBlockDevice ==
    mapping.step = "devices"
        => /\ Cardinality(DOMAIN mapping.d.root_block_device) <= 1
           /\ Len(mapping.blocks) > 1
                => mapping.out.err = "Cannot specify more than one root_block_device."
           /\ mapping.out.err = ""
                => Len(mapping.out.blockDevices) <= Len(mapping.ebs) + 1

\* C29 without the error: the set has at most one member and at most one
\* mapping is made of it.
C29_AtMostOneRootMapping ==
    mapping.step = "devices"
        => /\ Cardinality(DOMAIN mapping.d.root_block_device) <= 1
           /\ mapping.out.err = ""
                => Len(mapping.out.blockDevices) <= Len(mapping.ebs) + 1

\* What C30 says of a list of mappings that was flattened.
EachMappingInItsSet ==
    /\ \A i \in 1..Len(mapping.bdm) :
         LET val == mapping.bdm[i] IN
         (val.Ebs # Nil /\ val.DeviceName # Nil)
            => LET isRoot == val.DeviceName = mapping.rootDevName
                   inRoot == RootBlockOf(val) \in Range(mapping.root_block_device)
                   inEbs == EbsBlockOf(val) \in Range(mapping.ebs_block_device)
               IN IF isRoot THEN inRoot /\ ~inEbs ELSE inEbs
    /\ \A i \in 1..Len(mapping.bdm) :
         mapping.bdm[i].VirtualName # Nil
            => EphemeralBlockOf(mapping.bdm[i]) \in Range(mapping.ephemeral_block_device)

\* C30: flattening the block device mappings of a launch specification does
\* not fail, whatever the list; every mapping with an EBS part and a device
\* name is in root_block_device when its name is the root device's and in
\* ebs_block_device otherwise, and every mapping with a virtual name is in
\* ephemeral_block_device.
C30_BlockDevicesFlatten ==
    mapping.step = "sets" => (~mapping.panic /\ EachMappingInItsSet)

\* C30 for the lists whose flattening does not fail and in which no two
\* mappings have the same device name.
C30_FlattenedWhenNoPanic ==
    (/\ mapping.step = "sets"
     /\ ~mapping.panic
     /\ \A i, j \in 1..Len(mapping.bdm) :
          (i # j /\ mapping.bdm[i].DeviceName # Nil)
             => mapping.bdm[i].DeviceName # mapping.bdm[j].DeviceName)
        => EachMappingInItsSet

\* The flattening fails for a mapping that has the root device's name and no
\* EBS part.
C30_RootNameWithoutEbsFlattens ==
    (/\ mapping.step = "sets"
     /\ Len(mapping.bdm) = 1
     /\ mapping.bdm[1].DeviceName = mapping.rootDevName
     /\ mapping.rootDevName # Nil
     /\ mapping.bdm[1].Ebs = Nil)
        => ~mapping.panic

====
